---------------------------- MODULE Spec2Model ----------------------------
(***************************************************************************)
(* CfhtIsrTask.run (python/lsst/obs/cfht/cfhtIsrTask.py): saturation       *)
(* estimation from the pixel histogram, per-amplifier gain / read-noise    *)
(* repair, replacement of the exposure's detector, delegation to           *)
(* IsrTask.run.                                                            *)
(*                                                                         *)
(* Numbers.  Pixel values are whole counts (integers).  Metadata scalars,  *)
(* amplifier fields and the saturation level are floats in the code; here  *)
(* they are fixed-point hundredths: Centi(4) + 80 is 4.8.  config.safe is  *)
(* in hundredths too (95 is 0.95).  Arithmetic is exact (rational), not    *)
(* IEEE double.                                                            *)
(***************************************************************************)
EXTENDS Integers, Sequences, FiniteSets, TLC

VARIABLES
    pc,          \* position of the caller / of run: "start" .. "done", "failed"
    bfKernel,    \* the bfKernel argument: "None" or "kernel"
    imageArray,  \* the pixel values of the exposure's image, raveled
    metadata,    \* the exposure's metadata: a function on the keys present
    safe,        \* self.config.safe, in hundredths
    expDetector, \* the detector attached to ccdExposure
    ccd,         \* local ccd of run (line 64)
    saturate,    \* local saturate of run, fixed-point hundredths
    tempCcd,     \* the detector builder's amplifier list (lines 84-112)
    error,       \* the exception run raised, "none" while it has raised nothing
    work,        \* the kinds of work done so far, over all calls of run
    log,         \* the values written by self.log.info (line 82)
    inputs,      \* the detectors read by ccdExposure.getDetector(), one per call
    sealed,      \* the detectors built by tempCcd.finish(), one per call
    calls        \* number of calls of run on this exposure so far

vars == <<pc, bfKernel, imageArray, metadata, safe, expDetector, ccd, saturate,
          tempCcd, error, work, log, inputs, sealed, calls>>

----------------------------------------------------------------------------
(* Bounds of the model *)

MaxPixels == 3
MaxAmps == 2

(* Program constants *)

SatThreshold == 60000
NBins == 100
RdNoiseLimit == 60000
DefaultSafe == 95

----------------------------------------------------------------------------
(* Numbers *)

\* a whole number as fixed-point hundredths
Centi(n) == n * 100

\* Python int(n / d): truncation toward zero (d > 0)
TruncDiv(n, d) == IF n >= 0 THEN n \div d ELSE -((-n) \div d)

IsWhole(x) == x % 100 = 0

RECURSIVE SeqMax(_)
SeqMax(s) ==
    IF Len(s) = 1 THEN s[1]
    ELSE LET m == SeqMax(Tail(s)) IN IF s[1] > m THEN s[1] ELSE m

----------------------------------------------------------------------------
(* Metadata *)

Keys == {"SATURATE", "GAINA", "GAINB", "RDNOISEA", "RDNOISEB", "RDNOISE"}

HasKey(md, k) == k \in DOMAIN md

Restrict(f, S) == [k \in S |-> f[k]]

\* the metadata records with at most one of the keys absent
WithAbsentKey(full) ==
    {Restrict(f, Keys \ a) : f \in full, a \in {{}} \cup {{k} : k \in Keys}}

----------------------------------------------------------------------------
(* Saturation estimate, lines 76-81 *)

\* np.histogram(..., bins=NBins, range=(lo, hi)): bin of value v, lo <= v <= hi.
\* The last bin is closed on the right.
BinIndex(v, lo, hi) ==
    IF v = hi THEN NBins - 1 ELSE ((v - lo) * NBins) \div (hi - lo)

\* hist of np.histogram: values outside [lo, hi] are not counted
Histogram(img, lo, hi) ==
    [b \in 0 .. NBins - 1 |->
        Cardinality({i \in DOMAIN img :
            /\ img[i] >= lo
            /\ img[i] <= hi
            /\ BinIndex(img[i], lo, hi) = b})]

\* bin_edges[b] of np.histogram, in units of 1/NBins: lo + b * (hi - lo) / NBins
BinEdge(b, lo, hi) == lo * NBins + b * (hi - lo)

\* np.argmax mistaken: the last index holding the maximum
ArgMax_Last(hist) ==
    LET top == CHOOSE m \in {hist[b] : b \in DOMAIN hist} :
                   \A b \in DOMAIN hist : hist[b] <= m
    IN  CHOOSE b \in DOMAIN hist :
            /\ hist[b] = top
            /\ \A c \in DOMAIN hist : c > b => hist[c] # top

\* np.argmax: the first index holding the maximum
ArgMax(hist) ==
    LET top == CHOOSE m \in {hist[b] : b \in DOMAIN hist} :
                   \A b \in DOMAIN hist : hist[b] <= m
    IN  CHOOSE b \in DOMAIN hist :
            /\ hist[b] = top
            /\ \A c \in DOMAIN hist : c < b => hist[c] # top

\* line 79 without int(): safe * bin_edges[argmax(hist)], to the hundredth
HistogramSaturation_NoInt(img, sf) ==
    LET lo == SatThreshold
        hi == SeqMax(img) + 1
        peak == ArgMax(Histogram(img, lo, hi))
    IN  TruncDiv(sf * BinEdge(peak, lo, hi), NBins)

\* line 78-79: int(safe * bin_edges[argmax(hist)]), as fixed-point hundredths
HistogramSaturation(img, sf) ==
    LET lo == SatThreshold
        hi == SeqMax(img) + 1
        peak == ArgMax(Histogram(img, lo, hi))
    IN  Centi(TruncDiv(sf * BinEdge(peak, lo, hi), 100 * NBins))

\* line 77 with >= for >
UsesHistogram_Inclusive(img) == SeqMax(img) >= SatThreshold

\* line 77: the image shows pixels above the threshold
UsesHistogram(img) == SeqMax(img) > SatThreshold


----------------------------------------------------------------------------
(* Amplifier repair, lines 87-112 *)

\* the loop body with its else branch (line 110-111) folded into the "B" branch
AmpError_Lenient(amp, md) ==
    IF amp.name = "A" THEN
        IF ~HasKey(md, "GAINA") THEN "MissingMetadata"
        ELSE IF ~HasKey(md, "RDNOISEA") THEN "MissingMetadata"
        ELSE IF md["RDNOISEA"] > Centi(RdNoiseLimit) /\ ~HasKey(md, "RDNOISE")
             THEN "MissingMetadata"
        ELSE "none"
    ELSE
        IF ~HasKey(md, "GAINB") THEN "MissingMetadata"
        ELSE IF ~HasKey(md, "RDNOISEB") THEN "MissingMetadata"
        ELSE IF md["RDNOISEB"] > Centi(RdNoiseLimit) /\ ~HasKey(md, "RDNOISE")
             THEN "MissingMetadata"
        ELSE "none"

\* the exception one pass of the loop body raises on amp, "none" if it raises none
AmpError(amp, md) ==
    IF amp.name = "A" THEN
        IF ~HasKey(md, "GAINA") THEN "MissingMetadata"
        ELSE IF ~HasKey(md, "RDNOISEA") THEN "MissingMetadata"
        ELSE IF md["RDNOISEA"] > Centi(RdNoiseLimit) /\ ~HasKey(md, "RDNOISE")
             THEN "MissingMetadata"
        ELSE "none"
    ELSE IF amp.name = "B" THEN
        IF ~HasKey(md, "GAINB") THEN "MissingMetadata"
        ELSE IF ~HasKey(md, "RDNOISEB") THEN "MissingMetadata"
        ELSE IF md["RDNOISEB"] > Centi(RdNoiseLimit) /\ ~HasKey(md, "RDNOISE")
             THEN "MissingMetadata"
        ELSE "none"
    ELSE "UnexpectedAmplifier"

\* lines 96-97 and 107-108 left out: no fallback to RDNOISE
ReadNoiseFor_NoFallback(md, k) == md[k]

\* lines 91-97 and 101-108: the read noise chosen for per-amplifier key k
ReadNoiseFor(md, k) ==
    IF md[k] > Centi(RdNoiseLimit) THEN md["RDNOISE"] ELSE md[k]

\* setGain applied only to a record whose gain is still unset
RepairedAmp_KeepGain(amp, sat, md) ==
    IF amp.name = "A" THEN
        [amp EXCEPT !.saturation = sat,
                    !.gain = IF amp.gain = 0 THEN md["GAINA"] ELSE amp.gain,
                    !.readNoise = ReadNoiseFor(md, "RDNOISEA")]
    ELSE
        [amp EXCEPT !.saturation = sat,
                    !.gain = IF amp.gain = 0 THEN md["GAINB"] ELSE amp.gain,
                    !.readNoise = ReadNoiseFor(md, "RDNOISEB")]

\* setSaturation (line 88) moved into the "A" branch
RepairedAmp_SaturationOnlyA(amp, sat, md) ==
    IF amp.name = "A" THEN
        [amp EXCEPT !.saturation = sat,
                    !.gain = md["GAINA"],
                    !.readNoise = ReadNoiseFor(md, "RDNOISEA")]
    ELSE
        [amp EXCEPT !.gain = md["GAINB"],
                    !.readNoise = ReadNoiseFor(md, "RDNOISEB")]

\* the record appended to tempCcd for amp (AmpError(amp, md) = "none")
RepairedAmp(amp, sat, md) ==
    IF amp.name = "A" THEN
        [amp EXCEPT !.saturation = sat,
                    !.gain = md["GAINA"],
                    !.readNoise = ReadNoiseFor(md, "RDNOISEA")]
    ELSE
        [amp EXCEPT !.saturation = sat,
                    !.gain = md["GAINB"],
                    !.readNoise = ReadNoiseFor(md, "RDNOISEB")]

----------------------------------------------------------------------------
(* Inputs *)

PixelValues == {100, SatThreshold, SatThreshold + 1, 65000, 65535}

Images(n) == UNION {[1 .. k -> PixelValues] : k \in 1 .. n}

SafeValues == {-DefaultSafe, DefaultSafe, 150}

AmpNames == {"A", "B", "C"}

NameSeqs == UNION {[1 .. n -> AmpNames] : n \in 0 .. MaxAmps}

\* calibration values an amplifier record may hold before run
PriorCals ==
    { [saturation |-> 0, gain |-> 0, readNoise |-> 0],
      [saturation |-> Centi(65535), gain |-> Centi(1), readNoise |-> Centi(65535)] }

MakeDetector(names, prior) ==
    [name |-> "ccd",
     amps |-> [i \in 1 .. Len(names) |->
                 [name |-> names[i], bbox |-> i,
                  saturation |-> prior.saturation,
                  gain |-> prior.gain,
                  readNoise |-> prior.readNoise]]]

Detectors == {MakeDetector(n, p) : n \in NameSeqs, p \in PriorCals}

NoDetector == [name |-> "unassigned", amps |-> <<>>]

\* metadata of the runs that exercise the amplifier repair
RepairMetadata ==
    WithAbsentKey(
        [SATURATE : {Centi(65535), Centi(30000) + 50},
         GAINA    : {Centi(1) + 60},
         GAINB    : {Centi(1) + 70},
         RDNOISEA : {Centi(4) + 80, Centi(RdNoiseLimit), Centi(65535)},
         RDNOISEB : {Centi(4) + 90, Centi(65535)},
         RDNOISE  : {Centi(5) + 20}])

\* metadata of the runs that exercise the saturation estimate
SaturateMetadata ==
    {Restrict(f, Keys \ a) :
        f \in [SATURATE : {Centi(65535), Centi(30000) + 50, Centi(-1), 0},
               GAINA    : {Centi(1) + 60},
               GAINB    : {Centi(1) + 70},
               RDNOISEA : {Centi(4) + 80},
               RDNOISEB : {Centi(65535)},
               RDNOISE  : {Centi(5) + 20}],
        a \in {{}, {"SATURATE"}}}

TypeOK ==
    /\ pc \in {"start", "estimate", "rebuild", "repair", "isr", "done", "failed"}
    /\ bfKernel \in {"None", "kernel"}
    /\ error \in {"none", "UnsupportedCorrection", "MissingMetadata",
                  "UnexpectedAmplifier"}
    /\ work \subseteq {"histogram", "saturate", "repair", "setDetector", "isr"}
    /\ calls \in {1, 2}

Locals ==
    /\ pc = "start"
    /\ ccd = NoDetector
    /\ saturate = 0
    /\ tempCcd = <<>>
    /\ error = "none"
    /\ work = {}
    /\ log = <<>>
    /\ inputs = <<>>
    /\ sealed = <<>>
    /\ calls = 1

\* a caller about to call run on an exposure
Init ==
    /\ bfKernel \in {"None", "kernel"}
    /\ imageArray \in Images(1)
    /\ metadata \in RepairMetadata
    /\ safe \in SafeValues
    /\ expDetector \in Detectors
    /\ Locals

\* the same, over more images, safety fractions and SATURATE values, with the
\* instrument's two-amplifier detector
InitSat ==
    /\ bfKernel \in {"None", "kernel"}
    /\ imageArray \in Images(MaxPixels)
    /\ metadata \in SaturateMetadata
    /\ safe \in SafeValues
    /\ expDetector = MakeDetector(<<"A", "B">>,
                                   [saturation |-> 0, gain |-> 0, readNoise |-> 0])
    /\ Locals

----------------------------------------------------------------------------
(* run, lines 61-125 *)

Fail(e) ==
    /\ pc' = "failed"
    /\ error' = e

\* lines 61-62 left out: bfKernel is not looked at
CheckBfKernel_Ignored ==
    /\ pc = "start"
    /\ pc' = "estimate"
    /\ ccd' = expDetector
    /\ inputs' = Append(inputs, expDetector)
    /\ UNCHANGED <<bfKernel, imageArray, metadata, safe, expDetector, saturate,
                   tempCcd, error, work, log, sealed, calls>>

\* lines 61-66: reject a brighter-fatter kernel, else read the detector
CheckBfKernel ==
    /\ pc = "start"
    /\ IF bfKernel # "None"
       THEN /\ Fail("UnsupportedCorrection")
            /\ UNCHANGED <<ccd, inputs>>
       ELSE /\ pc' = "estimate"
            /\ ccd' = expDetector
            /\ inputs' = Append(inputs, expDetector)
            /\ UNCHANGED error
    /\ UNCHANGED <<bfKernel, imageArray, metadata, safe, expDetector, saturate,
                   tempCcd, work, log, sealed, calls>>

\* line 81 with a default of 0 for an absent SATURATE
DetectSaturation_Default ==
    /\ pc = "estimate"
    /\ IF UsesHistogram(imageArray)
       THEN /\ saturate' = HistogramSaturation(imageArray, safe)
            /\ work' = work \cup {"histogram", "saturate"}
       ELSE /\ saturate' = IF HasKey(metadata, "SATURATE")
                           THEN metadata["SATURATE"] ELSE 0
            /\ work' = work \cup {"saturate"}
    /\ log' = Append(log, TruncDiv(saturate', 100))
    /\ pc' = "rebuild"
    /\ UNCHANGED <<bfKernel, imageArray, metadata, safe, expDetector, ccd,
                   tempCcd, error, inputs, sealed, calls>>

\* lines 74-82: the saturation level, from the image or from SATURATE
DetectSaturation ==
    /\ pc = "estimate"
    /\ IF UsesHistogram(imageArray)
       THEN /\ saturate' = HistogramSaturation(imageArray, safe)
            /\ work' = work \cup {"histogram", "saturate"}
            /\ log' = Append(log, TruncDiv(saturate', 100))
            /\ pc' = "rebuild"
            /\ UNCHANGED error
       ELSE IF HasKey(metadata, "SATURATE")
       THEN /\ saturate' = metadata["SATURATE"]
            /\ work' = work \cup {"saturate"}
            /\ log' = Append(log, TruncDiv(saturate', 100))
            /\ pc' = "rebuild"
            /\ UNCHANGED error
       ELSE /\ Fail("MissingMetadata")
            /\ UNCHANGED <<saturate, work, log>>
    /\ UNCHANGED <<bfKernel, imageArray, metadata, safe, expDetector, ccd,
                   tempCcd, inputs, sealed, calls>>

\* lines 84-85: a builder of the detector, its amplifier list cleared
RebuildDetector ==
    /\ pc = "rebuild"
    /\ tempCcd' = <<>>
    /\ pc' = "repair"
    /\ UNCHANGED <<bfKernel, imageArray, metadata, safe, expDetector, ccd,
                   saturate, error, work, log, inputs, sealed, calls>>

\* lines 86-112: one pass of the loop over the amplifiers of ccd
RepairAmp ==
    /\ pc = "repair"
    /\ Len(tempCcd) < Len(ccd.amps)
    /\ LET amp == ccd.amps[Len(tempCcd) + 1] IN
         /\ work' = work \cup {"repair"}
         /\ IF AmpError(amp, metadata) # "none"
            THEN /\ Fail(AmpError(amp, metadata))
                 /\ UNCHANGED tempCcd
            ELSE /\ tempCcd' = Append(tempCcd, RepairedAmp(amp, saturate, metadata))
                 /\ UNCHANGED <<pc, error>>
    /\ UNCHANGED <<bfKernel, imageArray, metadata, safe, expDetector, ccd,
                   saturate, log, inputs, sealed, calls>>

\* finish() returning the amplifiers in reverse order of appending
Finish_Reversed(det, amps) ==
    [det EXCEPT !.amps = [i \in 1 .. Len(amps) |-> amps[Len(amps) + 1 - i]]]

\* tempCcd.finish(): the detector of the builder, with the amplifiers appended
Finish(det, amps) == [det EXCEPT !.amps = amps]

\* lines 114-115: seal the builder and attach the detector to the exposure
SetDetector ==
    /\ pc = "repair"
    /\ Len(tempCcd) = Len(ccd.amps)
    /\ ccd' = Finish(ccd, tempCcd)
    /\ expDetector' = ccd'
    /\ sealed' = Append(sealed, ccd')
    /\ work' = work \cup {"setDetector"}
    /\ pc' = "isr"
    /\ UNCHANGED <<bfKernel, imageArray, metadata, safe, saturate, tempCcd,
                   error, log, inputs, calls>>

\* lines 116-125: IsrTask.run, the external pipeline
CallIsr ==
    /\ pc = "isr"
    /\ work' = work \cup {"isr"}
    /\ pc' = "done"
    /\ UNCHANGED <<bfKernel, imageArray, metadata, safe, expDetector, ccd,
                   saturate, tempCcd, error, log, inputs, sealed, calls>>

\* the caller calls run once more on the same exposure, with the same arguments
Rerun ==
    /\ pc = "done"
    /\ calls = 1
    /\ calls' = 2
    /\ pc' = "start"
    /\ ccd' = NoDetector
    /\ saturate' = 0
    /\ tempCcd' = <<>>
    /\ UNCHANGED <<bfKernel, imageArray, metadata, safe, expDetector, error,
                   work, log, inputs, sealed>>

Next ==
    \/ CheckBfKernel
    \/ DetectSaturation
    \/ RebuildDetector
    \/ RepairAmp
    \/ SetDetector
    \/ CallIsr
    \/ Rerun

Spec == Init /\ [][Next]_vars

SpecSat == InitSat /\ [][Next]_vars

----------------------------------------------------------------------------
(* Vocabulary of the properties, stated from the inputs of the call *)

\* the current call has assigned saturate (line 79 or 81)
SaturateSet ==
    \/ pc \in {"rebuild", "repair", "isr", "done"}
    \/ pc = "failed" /\ "repair" \in work

\* the amplifier loop of the current call has ended, by exhaustion or by a raise
RepairEnded ==
    \/ pc \in {"isr", "done"}
    \/ pc = "failed" /\ "repair" \in work

\* run has returned or raised
Returned == pc \in {"done", "failed"}

MaxPixel == CHOOSE m \in {imageArray[i] : i \in DOMAIN imageArray} :
                \A i \in DOMAIN imageArray : imageArray[i] <= m

\* nothing of a repaired detector is visible: none sealed, none attached, no ISR
NoOutput ==
    /\ sealed = <<>>
    /\ "setDetector" \notin work
    /\ "isr" \notin work
    /\ inputs # <<>> => expDetector = inputs[1]

ValidName(n) == n \in {"A", "B"}

\* amplifier a looks up a key the metadata lacks
LacksKey(a) ==
    \/ a.name = "A" /\ ~{"GAINA", "RDNOISEA"} \subseteq DOMAIN metadata
    \/ a.name = "B" /\ ~{"GAINB", "RDNOISEB"} \subseteq DOMAIN metadata
    \/ /\ a.name = "A"
       /\ {"GAINA", "RDNOISEA"} \subseteq DOMAIN metadata
       /\ metadata["RDNOISEA"] > 6000000
       /\ "RDNOISE" \notin DOMAIN metadata
    \/ /\ a.name = "B"
       /\ {"GAINB", "RDNOISEB"} \subseteq DOMAIN metadata
       /\ metadata["RDNOISEB"] > 6000000
       /\ "RDNOISE" \notin DOMAIN metadata

\* amplifier i of amps is reached by the loop: every one before it is repaired
Reached(amps, i) ==
    \A j \in 1 .. i - 1 : ValidName(amps[j].name) /\ ~LacksKey(amps[j])

\* width of the histogram range [60000, max + 1]
RangeWidth == MaxPixel + 1 - 60000

\* pixel value p lies in bin b of the 100 equal-width bins of [60000, max + 1]:
\* edge(b) <= p < edge(b + 1), the last bin holding its upper edge as well
InBin(p, b) ==
    /\ p * 100 >= 60000 * 100 + b * RangeWidth
    /\ \/ p * 100 < 60000 * 100 + (b + 1) * RangeWidth
       \/ b = 99 /\ p = MaxPixel + 1

\* the pixels the histogram counts
Counted == {i \in DOMAIN imageArray : imageArray[i] >= 60000}

BinCount(b) == Cardinality({i \in Counted : InBin(imageArray[i], b)})

\* the bins holding a pixel; every other bin counts 0
OccupiedBins == {CHOOSE b \in 0 .. 99 : InBin(imageArray[i], b) : i \in Counted}

\* the most populated bins
PeakBins ==
    LET occupied == OccupiedBins
        count == [b \in occupied |-> BinCount(b)]
    IN  {b \in occupied : \A c \in occupied : count[c] <= count[b]}

LowestPeakBin == LET peaks == PeakBins IN CHOOSE b \in peaks : \A c \in peaks : b <= c

\* safe * e in units of 1/10000, e the lower edge of the lowest peak bin
SafeTimesPeakEdge == safe * (60000 * 100 + LowestPeakBin * RangeWidth)

----------------------------------------------------------------------------
(* C1 -- a call of run with a non-null bfKernel fails with                   *)
(* UnsupportedCorrection whatever the other inputs are, and it has then done *)
(* no saturation estimate, computed no histogram, repaired no amplifier,     *)
(* attached no detector and not called the ISR pipeline.                     *)
C1_BfKernelRejectedFirst ==
    (bfKernel # "None" /\ pc # "start") =>
        /\ pc = "failed"
        /\ error = "UnsupportedCorrection"
        /\ work = {}
        /\ log = <<>>
        /\ tempCcd = <<>>
        /\ inputs = <<>>
        /\ sealed = <<>>

C1_Witness ==
    /\ bfKernel # "None"
    /\ pc = "failed"
    /\ "GAINA" \notin DOMAIN metadata
    /\ \E i \in DOMAIN expDetector.amps : expDetector.amps[i].name = "C"

----------------------------------------------------------------------------
(* C2 -- when the largest pixel is <= 60000 (60000 included) and SATURATE    *)
(* is present, the saturation is the SATURATE value itself: not multiplied   *)
(* by safe, and no histogram has been computed.                              *)
C2_MetadataSaturationExact ==
    (SaturateSet /\ MaxPixel <= 60000) =>
        /\ "SATURATE" \in DOMAIN metadata
        /\ saturate = metadata["SATURATE"]
        /\ "histogram" \notin work

C2_Witness ==
    /\ SaturateSet
    /\ MaxPixel = 60000
    /\ "SATURATE" \in DOMAIN metadata
    /\ safe # 100
    /\ saturate = metadata["SATURATE"]
    /\ saturate # 0

----------------------------------------------------------------------------
(* C3 as stated -- when the largest pixel is > 60000 the saturation is       *)
(* floor(safe * e), e the lower edge of the lowest-indexed most populated    *)
(* bin of the 100-bin histogram over [60000, max + 1].                       *)
C3_FloorOfSafeTimesEdge ==
    (SaturateSet /\ MaxPixel > 60000) =>
        saturate = 100 * (SafeTimesPeakEdge \div 10000)

(* C3 amended -- when the largest pixel is > 60000 the saturation is         *)
(* safe * e truncated toward zero (Python int), which is floor(safe * e)     *)
(* when safe * e >= 0; e is the lower edge of the lowest-indexed most        *)
(* populated bin; SATURATE plays no part.                                    *)
C3_TruncatedSafeTimesEdge ==
    (SaturateSet /\ MaxPixel > 60000) =>
        LET x == SafeTimesPeakEdge IN
            /\ "histogram" \in work
            /\ x >= 0 => saturate = 100 * (x \div 10000)
            /\ x < 0 => saturate = - 100 * ((- x) \div 10000)

\* a tie between two bins, the lower of them not the first bin
C3_Witness ==
    /\ SaturateSet
    /\ MaxPixel > 60000
    /\ Cardinality(PeakBins) > 1
    /\ LowestPeakBin > 0
    /\ "SATURATE" \in DOMAIN metadata
    /\ saturate # metadata["SATURATE"]
    /\ safe > 0

----------------------------------------------------------------------------
(* C4 -- a repaired amplifier "A" (resp. "B") has read noise RDNOISEA        *)
(* (resp. RDNOISEB) when that is <= 60000 and RDNOISE when it is > 60000;    *)
(* its gain is GAINA (resp. GAINB); each amplifier's choice looks at its own *)
(* key only.                                                                 *)
RepairedAsDocumented(r) ==
    /\ r.name = "A" =>
        /\ r.gain = metadata["GAINA"]
        /\ metadata["RDNOISEA"] <= 6000000 => r.readNoise = metadata["RDNOISEA"]
        /\ metadata["RDNOISEA"] > 6000000 => r.readNoise = metadata["RDNOISE"]
    /\ r.name = "B" =>
        /\ r.gain = metadata["GAINB"]
        /\ metadata["RDNOISEB"] <= 6000000 => r.readNoise = metadata["RDNOISEB"]
        /\ metadata["RDNOISEB"] > 6000000 => r.readNoise = metadata["RDNOISE"]

C4_ReadNoiseFallback ==
    /\ \A i \in DOMAIN tempCcd : RepairedAsDocumented(tempCcd[i])
    /\ \A k \in DOMAIN sealed :
           \A i \in DOMAIN sealed[k].amps : RepairedAsDocumented(sealed[k].amps[i])

\* A falls back to RDNOISE while B, in the same detector, keeps RDNOISEB
C4_Witness ==
    /\ pc = "done"
    /\ Len(expDetector.amps) = 2
    /\ expDetector.amps[1].name = "A"
    /\ expDetector.amps[2].name = "B"
    /\ metadata["RDNOISEA"] = 6553500
    /\ metadata["RDNOISEB"] = 490
    /\ expDetector.amps[1].readNoise = 520
    /\ expDetector.amps[2].readNoise = 490

----------------------------------------------------------------------------
(* C5 as stated -- whenever the input detector holds an amplifier named      *)
(* neither "A" nor "B", the repair fails with UnexpectedAmplifier and        *)
(* leaves no output.                                                         *)
HasBadAmp == \E i \in DOMAIN inputs[1].amps : ~ValidName(inputs[1].amps[i].name)

C5_AlwaysUnexpectedAmplifier ==
    (RepairEnded /\ HasBadAmp) =>
        /\ pc = "failed"
        /\ error = "UnexpectedAmplifier"
        /\ NoOutput

(* C5 amended -- whenever the input detector holds an amplifier named        *)
(* neither "A" nor "B", the repair fails and leaves no output; it fails with *)
(* UnexpectedAmplifier unless an amplifier before the first such one looks   *)
(* up an absent metadata key, in which case it fails with MissingMetadata.   *)
C5_BadAmpAborts ==
    (RepairEnded /\ HasBadAmp) =>
        /\ pc = "failed"
        /\ NoOutput
        /\ LET amps == inputs[1].amps
               first == CHOOSE i \in DOMAIN amps :
                            /\ ~ValidName(amps[i].name)
                            /\ \A j \in 1 .. i - 1 : ValidName(amps[j].name)
           IN  /\ Reached(amps, first) => error = "UnexpectedAmplifier"
               /\ ~Reached(amps, first) => error = "MissingMetadata"

\* the offending amplifier comes after one that was repaired
C5_Witness ==
    /\ pc = "failed"
    /\ error = "UnexpectedAmplifier"
    /\ Len(tempCcd) > 0
    /\ Len(inputs[1].amps) > Len(tempCcd)
    /\ inputs[1].amps[Len(tempCcd) + 1].name = "C"

----------------------------------------------------------------------------
(* C6 -- run fails with MissingMetadata exactly when a key is absent on the  *)
(* branch that looks it up (SATURATE when the largest pixel is <= 60000; an  *)
(* amplifier's GAIN / RDNOISE key when the loop reaches that amplifier;      *)
(* RDNOISE when that amplifier's read noise is > 60000); the exposure then   *)
(* still has its original detector and the ISR pipeline was not called.      *)
KeyNeededAbsent ==
    /\ bfKernel = "None"
    /\ \/ MaxPixel <= 60000 /\ "SATURATE" \notin DOMAIN metadata
       \/ /\ MaxPixel <= 60000 => "SATURATE" \in DOMAIN metadata
          /\ \E i \in DOMAIN inputs[1].amps :
                 /\ Reached(inputs[1].amps, i)
                 /\ LacksKey(inputs[1].amps[i])

C6_MissingMetadataExactly ==
    /\ Returned => (error = "MissingMetadata" <=> KeyNeededAbsent)
    /\ error = "MissingMetadata" => (pc = "failed" /\ NoOutput)

\* the fallback key is the absent one, found at the second amplifier
C6_Witness ==
    /\ pc = "failed"
    /\ error = "MissingMetadata"
    /\ "RDNOISE" \notin DOMAIN metadata
    /\ Len(tempCcd) = 1
    /\ expDetector = inputs[1]

----------------------------------------------------------------------------
(* C7 -- a sealed detector has as many amplifiers as the detector read at    *)
(* the start of the call, with the same names in the same order, and each    *)
(* record differs from the one it was rebuilt from in saturation, gain and   *)
(* read noise at most.                                                       *)
SameButCalibration(r, a) ==
    [r EXCEPT !.saturation = 0, !.gain = 0, !.readNoise = 0] =
    [a EXCEPT !.saturation = 0, !.gain = 0, !.readNoise = 0]

C7_SameAmplifiersSameOrder ==
    \A k \in DOMAIN sealed :
        /\ sealed[k].name = inputs[k].name
        /\ Len(sealed[k].amps) = Len(inputs[k].amps)
        /\ \A i \in DOMAIN sealed[k].amps :
               /\ sealed[k].amps[i].name = inputs[k].amps[i].name
               /\ SameButCalibration(sealed[k].amps[i], inputs[k].amps[i])

C7_Witness ==
    /\ pc = "done"
    /\ expDetector = sealed[1]
    /\ Len(expDetector.amps) = 2
    /\ expDetector.amps[1].name = "B"
    /\ expDetector.amps[2].name = "A"
    /\ expDetector.amps[1] # inputs[1].amps[1]

----------------------------------------------------------------------------
(* C8 as stated -- the saturation is a non-negative integer on both          *)
(* branches, for every value of safe.                                        *)
C8_NonNegativeInteger ==
    SaturateSet => (saturate >= 0 /\ IsWhole(saturate))

(* C8 amended -- the image-derived saturation is an integer, non-negative    *)
(* when safe >= 0; the metadata branch returns SATURATE unchanged, so it is  *)
(* a non-negative integer when the recorded SATURATE is one.                 *)
C8_IntegerWhenImageDerived ==
    SaturateSet =>
        /\ MaxPixel > 60000 => IsWhole(saturate)
        /\ (MaxPixel > 60000 /\ safe >= 0) => saturate >= 0
        /\ MaxPixel <= 60000 => saturate = metadata["SATURATE"]
        /\ (MaxPixel <= 60000 /\ metadata["SATURATE"] >= 0
                /\ IsWhole(metadata["SATURATE"])) =>
               (saturate >= 0 /\ IsWhole(saturate))

C8_Witness ==
    /\ SaturateSet
    /\ MaxPixel > 60000
    /\ safe = 95
    /\ saturate > 0
    /\ saturate # 5700000

----------------------------------------------------------------------------
(* C9 -- a second call of run on the repaired detector, with the same        *)
(* metadata and image, seals a detector identical to the first call's; and   *)
(* the sealed records do not depend on the saturation, gain and read noise   *)
(* the input records held.                                                   *)
Blank(a) == [a EXCEPT !.saturation = 0, !.gain = 0, !.readNoise = 0]

C9_IdempotentRepair ==
    /\ \A k \in DOMAIN sealed : sealed[k] = sealed[1]
    /\ pc \in {"isr", "done"} =>
           \A i \in DOMAIN expDetector.amps :
               expDetector.amps[i] =
                   RepairedAmp(Blank(inputs[Len(inputs)].amps[i]), saturate, metadata)

C9_Witness ==
    /\ pc = "done"
    /\ calls = 2
    /\ Len(sealed) = 2
    /\ Len(sealed[2].amps) = 2
    /\ inputs[1] # inputs[2]
    /\ inputs[1].amps[1].gain # 0

----------------------------------------------------------------------------
(* C10 -- every amplifier of a sealed detector carries one saturation value, *)
(* the one the estimate produced for this exposure before the loop.          *)
EstimatedSaturation ==
    IF MaxPixel > 60000 THEN HistogramSaturation(imageArray, safe)
    ELSE metadata["SATURATE"]

C10_SharedSaturation ==
    /\ \A i \in DOMAIN tempCcd : tempCcd[i].saturation = saturate
    /\ pc \in {"isr", "done"} =>
           /\ saturate = EstimatedSaturation
           /\ \A i \in DOMAIN expDetector.amps :
                  expDetector.amps[i].saturation = saturate
    /\ \A k \in DOMAIN sealed : \A i \in DOMAIN sealed[k].amps :
           sealed[k].amps[i].saturation = EstimatedSaturation

C10_Witness ==
    /\ pc = "done"
    /\ MaxPixel > 60000
    /\ Len(expDetector.amps) = 2
    /\ expDetector.amps[1].name # expDetector.amps[2].name
    /\ saturate > 0
    /\ expDetector.amps[1].saturation = saturate
    /\ expDetector.amps[2].saturation = saturate
    /\ inputs[1].amps[1].saturation # saturate

=============================================================================
